---- MODULE Spec2Model ----
(***************************************************************************)
(* mod_rednibblebill.c: nibble billing of one session against a redis      *)
(* counter.  The model follows the C source: the per-session               *)
(* rednibble_data_t, the nested global mutex, and the engine operations    *)
(* do_billing, rednibblebill_pause / _resume / _reset / _check / _adjust,  *)
(* each cut at the points where another thread can run (sampling the       *)
(* clock and the unlocked reads, taking the mutex, the locked body).       *)
(*                                                                         *)
(* Units.  Timestamps are switch_time_t microseconds.  The code computes   *)
(* money as (rate / 1000000 / 60) * microseconds; the model keeps every    *)
(* amount held in rednibble_data_t (total, bill_adjustments, billamount)   *)
(* as an integer number of 1/(60 * 1000000) currency units, so that        *)
(* billamount = rate * microseconds - bill_adjustments exactly.  The redis *)
(* counter, the balances read from it and the thresholds are in            *)
(* micro-units (1/1000000), as the store keeps them.                       *)
(***************************************************************************)
EXTENDS Integers, Sequences, FiniteSets, TLC

\* 1000000: microseconds per second, and micro-units per currency unit.
MICRO == 1000000

\* Seconds per minute: the billing rate is per minute.
SECS_PER_MIN == 60

\* switch_status_t values (switch_types.h): SWITCH_STATUS_SUCCESS = 0, SWITCH_STATUS_FALSE = 1.
SWITCH_STATUS_FALSE == 1

\* ---- bounds of the model ----
\* The clock advances in half-second ticks, MaxTicks times at most.
MaxTicks == 2

\* Counters of host calls saturate at this value.
MaxCount == 2

\* globals.lowbal_amt and globals.nobal_amt as configured, in micro-units.
lowbal_amt == 20000

nobal_amt == 0

\* The value of the channel variable "nobal_amt" on the sessions that set it,
\* in micro-units (lines 356-358).
SessionNobal == 10000

TickStep == MICRO \div 2

\* The first instant of the model (the epoch clock is never 0).
T0 == MICRO

TimeEnd == T0 + MaxTicks * TickStep

\* The runs with two threads end one tick earlier.
TimeEndConc == TimeEnd - TickStep

\* resume passes its unlocked test at most this many times.
MaxResumes == 2

\* The two contexts that run engine operations concurrently: the session
\* thread (dialplan application, state handlers) and the API / event thread.
Threads == {"app", "api"}

\* rednibble_rate values (currency units per minute) and rednibble_increment
\* values (seconds; 0 stands for the variable being unset or empty).
Rates == {1, 2}

Increments == {0, 1}

\* Initial values of the redis counter rn_<account>, micro-units.
StoreInit == {5000, 40000}

\* Amounts given to "adjust <amount>": whole currency units, and a fraction in
\* 1/(60 * 1000000) units.
AdjustAmounts == {[whole |-> 1, frac |-> 0]}

\* pause is called on a session without a record only while the mutex is
\* held less deep than this (each such call leaves it locked once more).
MaxLeaked == 1

\* The store performs at most this many debits of adjust, and at most this
\* many debits of the other session that bills the account.
MaxAdjusts == 1

MaxPeerDebits == 1

\* reset reaches its locked body at most this many times (in increment mode
\* every reset lets the next do_billing charge one more block).
MaxResets == 1

VARIABLES
    now,            \* switch_micro_time_now()
    billrate,       \* channel variable rednibble_rate
    billincrement,  \* channel variable rednibble_increment (0: unset)
    chanvars,       \* which of rednibble_rate and rednibble_account are set on the channel
    answered,       \* profile->times->answered (0: not answered)
    chanState,      \* switch_channel_get_state(channel)
    rednibble_data, \* the channel private "_rednibble_data_" (alloc = FALSE: NULL)
    mutex,          \* globals.mutex, a nested mutex: owner and depth
    store,          \* the redis counter rn_<account>
    pc,             \* per thread: where it is in the operation it runs
    ts,             \* per thread: the `ts` local sampled at the top of the operation
    entry,          \* per thread: do_billing's locals (record found, debit, balance read)
    inHandler,      \* per thread: its do_billing was called by process_hangup (line 833)
    out,            \* the store / host calls issued by the step just taken
    hist            \* history: counts of host calls and of pause / resume effects

vars == <<now, billrate, billincrement, chanvars, answered, chanState, rednibble_data, mutex,
          store, pc, ts, entry, inHandler, out, hist>>

\* The channel variables a session must carry to be billed (line 365).
BillingVars == {"rednibble_rate", "rednibble_account"}

\* ---------------------------------------------------------------- helpers

Min(a, b) == IF a < b THEN a ELSE b

Bump(n) == Min(n + 1, MaxCount)

\* The least integer not below a / b, for b > 0: ceil() of line 433, where the
\* double quotient of two integers is exact or far from a whole number.
CeilDiv(a, b) == IF a >= 0 THEN (a + b - 1) \div b ELSE -((-a) \div b)

\* C integer division a / b for b > 0 (truncates towards zero).
TruncDiv(a, b) == IF a >= 0 THEN a \div b ELSE -((-a) \div b)

\* The value of a NULL "_rednibble_data_" private.
NoData == [alloc |-> FALSE, lastts |-> 0, total |-> 0, pausets |-> 0,
           bill_adjustments |-> 0, lowbal_action_executed |-> 0]

\* NewData without the seed of line 421: the record as memset leaves it.
NewData_zero(ans) == [NoData EXCEPT !.alloc = TRUE]

\* switch_core_session_alloc + memset 0, then lastts = profile->times->answered.
NewData(ans) == [NoData EXCEPT !.alloc = TRUE, !.lastts = ans]

NoEntry == [neg |-> FALSE, data |-> NoData, calls |-> <<>>, balance |-> 0]

NoMutex == [owner |-> "none", depth |-> 0]

\* switch_mutex_lock on a SWITCH_MUTEX_NESTED mutex: free, or held by t itself.
CanLock(t) == mutex.owner \in {"none", t}

Locked(t) == [owner |-> t, depth |-> mutex.depth + 1]

Unlocked == IF mutex.depth <= 1 THEN NoMutex ELSE [mutex EXCEPT !.depth = @ - 1]

Holds(t) == mutex.owner = t /\ mutex.depth > 0

\* ---------------------------------------------------------------- pure parts

\* chargedunits of increment mode, microseconds.
ChargedUnits(dt, inc) ==
    IF TruncDiv(dt, MICRO) <= inc
    THEN inc * MICRO
    ELSE CeilDiv(dt, inc * MICRO) * inc * MICRO

\* BillAmount with the operands of the subtraction exchanged.
BillAmount_swapped(rate, units, adj) == adj - rate * units

\* BillAmount without the pending adjustment.
BillAmount_noadj(rate, units, adj) == rate * units

\* billamount = (atof(billrate) / 1000000 / 60) * units - bill_adjustments.
BillAmount(rate, units, adj) == rate * units - adj

\* ceil(billamount * 1000000) of line 264, before the conversion to int: the
\* values the double arithmetic can yield for an amount of `amount`
\* 1/(60 * 1000000) units.  A billamount that is a rounded double (`exact`
\* FALSE) may lie just above or just below the amount it stands for: the
\* product then rounds up to the next micro-unit when the amount is a whole
\* number of micro-units and the double lies above it.  The rounding error is
\* far below 1/60 micro-unit, the least distance of any other amount from a
\* whole number of micro-units, so the result is never below the least whole
\* number of micro-units that covers the amount.
EncodeDouble(amount, exact) ==
    LET least == CeilDiv(amount, SECS_PER_MIN)
    IN IF exact \/ amount % SECS_PER_MIN # 0
       THEN {least}
       ELSE {least, least + 1}

\* The limits of the 32-bit int `dec` of bill_event.
INT_MAX == 2147483647

INT_MIN == -INT_MAX - 1

\* The values (int) x can take for the double x = whole * 1000000 + micros
\* (whole currency units and micro-units are kept apart because x itself may
\* exceed the integers the model checker has; |x| < 2^32 + 2^31 here).  When x
\* is outside the range of int the conversion is undefined, and a build yields
\* the "integer indefinite" value INT_MIN of the x86 cvttsd2si, the nearer
\* limit (saturation), or the low 32 bits of x.
IntCast(whole, micros) ==
    LET w == whole + (micros \div MICRO)
        m == micros % MICRO
        hiW == INT_MAX \div MICRO
        hiM == INT_MAX % MICRO
        loW == INT_MIN \div MICRO
        loM == INT_MIN % MICRO
        above == w > hiW \/ (w = hiW /\ m > hiM)
        below == w < loW \/ (w = loW /\ m < loM)
    IN CASE ~above /\ ~below ->
              {IF w < 0 THEN (w + 1) * MICRO + (m - MICRO) ELSE w * MICRO + m}
         [] above -> {INT_MIN, INT_MAX, (w - 2 * hiW) * MICRO + (m - 2 * hiM - 2)}
         [] OTHER -> {INT_MIN, (w + 2 * hiW) * MICRO + (m + 2 * hiM + 2)}

\* GetBalance failing closed: a failed read yields a balance of 0.
GetBalance_zero(res) == IF res = "ok" THEN store ELSE 0

\* get_balance: the balance in micro-units for each outcome of the store.
GetBalance(res) ==
    CASE res = "noconn" -> SWITCH_STATUS_FALSE * MICRO
      [] res = "nokey" -> 1 * MICRO
      [] OTHER -> store

StoreResults == {"ok", "noconn", "nokey"}

\* NoBalance with a strict comparison.
NoBalance_strict(balance, nobal) == balance < nobal

\* Lines 386 and 486: the balance is at or below the no-balance threshold.
NoBalance(balance, nobal) == balance <= nobal

\* PauseSet without the test of line 570.
PauseSet_always(d, t) == [d EXCEPT !.pausets = t]

\* PauseSet with the test of line 570 inverted.
PauseSet_inverted(d, t) == IF d.pausets # 0 THEN [d EXCEPT !.pausets = t] ELSE d

\* The body of rednibblebill_pause on an allocated record.
PauseSet(d, t) == IF d.pausets = 0 THEN [d EXCEPT !.pausets = t] ELSE d

\* ResumeCredit without the rate.
ResumeCredit_norate(rate, t, pausets) == t - pausets

\* The credit rednibblebill_resume adds for the paused interval.
ResumeCredit(rate, t, pausets) == rate * (t - pausets)

\* ResumeSet taking the credit off the total at once.
ResumeSet_total(d, rate, t) ==
    [d EXCEPT !.total = @ - ResumeCredit(rate, t, d.pausets), !.pausets = 0]

\* The record rednibblebill_resume leaves.
ResumeSet(d, rate, t) ==
    [d EXCEPT !.bill_adjustments = @ + ResumeCredit(rate, t, d.pausets), !.pausets = 0]

\* The record rednibblebill_reset leaves.
ResetSet(d, t) == [d EXCEPT !.lastts = t]

\* ---------------------------------------------------------------- state

\* lowbalAttempts, lowbalDone: runs of the low-balance action, and those that
\* succeeded; credits: credits added by resume since the last pause took
\* effect; resets, resumes: calls that passed their unlocked test;
\* lostUntil: the end of the last window that a do_billing consumed while the
\* store refused its debit (0: none), recorded by the runs that start with
\* trackLost set; reroutes: transfers to the no-balance action since the last
\* resume; hangupStarted: on_hangup has called process_hangup (the handler
\* was entered in channel state CS_HANGUP); hangupBilled: the do_billing of
\* that process_hangup has returned;
\* pausedFor: the time spent in the pauses that a resume has ended, recorded
\* by the runs that start with trackActive set; adjusts, peerDebits: debits
\* of adjust and of the other session that the store performed.
NoHist == [lowbalAttempts |-> 0, lowbalDone |-> 0, credits |-> 0, resets |-> 0, resumes |-> 0,
           adjusts |-> 0, peerDebits |-> 0,
           pausedEver |-> FALSE, nobalRerouted |-> FALSE, trackLost |-> FALSE,
           lostUntil |-> 0, reroutes |-> 0, hangupStarted |-> FALSE,
           hangupBilled |-> FALSE,
           trackActive |-> FALSE, pausedFor |-> 0]

InitOf(Rs, Is, Ss) ==
    /\ now = T0
    /\ billrate \in Rs
    /\ billincrement \in Is
    /\ chanvars = BillingVars
    /\ answered = 0
    /\ chanState = "CS_EXECUTE"
    /\ rednibble_data = NoData
    /\ mutex = NoMutex
    /\ store \in Ss
    /\ pc = [t \in Threads |-> "idle"]
    /\ ts = [t \in Threads |-> 0]
    /\ entry = [t \in Threads |-> NoEntry]
    /\ inHandler = [t \in Threads |-> FALSE]
    /\ out = <<>>
    /\ hist = NoHist

Init == InitOf({2}, Increments, {40000})

\* ---------------------------------------------------------------- environment

\* The clock advances by one tick, up to the instant `end`.
TickTo(end) ==
    /\ now < end
    /\ now' = now + TickStep
    /\ out' = <<>>
    /\ UNCHANGED <<billrate, billincrement, chanvars, inHandler, answered, chanState, rednibble_data, mutex,
                   store, pc, ts, entry, hist>>

\* The call is answered (in the first instant: later answers are the same runs
\* shifted in time).
Answer ==
    /\ answered = 0
    /\ now = T0
    /\ chanState = "CS_EXECUTE"
    /\ answered' = now
    /\ out' = <<>>
    /\ UNCHANGED <<now, billrate, billincrement, chanvars, inHandler, chanState, rednibble_data, mutex,
                   store, pc, ts, entry, hist>>

\* The dialplan unsets a channel variable (between two operations of the
\* session thread).
UnsetVariable(v) ==
    /\ v \in chanvars
    /\ \A t \in Threads : pc[t] = "idle"
    /\ chanvars' = chanvars \ {v}
    /\ out' = <<>>
    /\ UNCHANGED <<now, billrate, billincrement, answered, inHandler, chanState, rednibble_data,
                   mutex, store, pc, ts, entry, hist>>

\* The host moves the channel to CS_HANGUP (the far end hangs up), whatever
\* the session's threads are doing: a do_billing under way sees the new state
\* at line 470.
Hangup ==
    /\ chanState = "CS_EXECUTE"
    /\ chanState' = "CS_HANGUP"
    /\ out' = <<>>
    /\ UNCHANGED <<now, billrate, billincrement, chanvars, inHandler, answered, rednibble_data, mutex,
                   store, pc, ts, entry, hist>>

\* ---------------------------------------------------------------- do_billing

Get(res) == [call |-> "get", res |-> res]

Transfer == [call |-> "transfer"]

Exec(ok) == [call |-> "exec", ok |-> ok]

\* bill_event(billamount): billamount is `whole` currency units plus `amount`
\* 1/(60 * 1000000) units (do_billing passes whole = 0); dec is the int handed
\* to credis_decrby, ok whether the store performed the decrement; `exact`
\* tells that the double billamount is the amount itself.  One call for each
\* value the rounding and the conversion to int can yield.
Decrby(whole, amount, exact, ok) ==
    {[call |-> "decrby", whole |-> whole, amount |-> amount, dec |-> dec, ok |-> ok] :
        dec \in UNION {IntCast(whole, e) : e \in EncodeDouble(amount, exact)}}

\* The billamount of lines 434 and 439 is computed without rounding only when
\* no time is charged and no adjustment is pending (it is 0 then).
ExactCharge(units, adj) == units = 0 /\ adj = 0

\* Lines 430-442: the units charged for elapsed time dt >= 0.
Units(dt, inc) == IF inc # 0 THEN ChargedUnits(dt, inc) ELSE dt

\* NextLastts with lastts left where it was.
NextLastts_kept(d, t, inc) == d.lastts

\* Lines 436 and 441: the new lastts.
NextLastts(d, t, inc) == IF inc # 0 THEN d.lastts + Units(t - d.lastts, inc) ELSE t

\* Billed without the test of line 430.
Billed_noguard(d, t, rate, inc, ok) ==
    LET amount == BillAmount(rate, Units(t - d.lastts, inc), d.bill_adjustments)
    IN [d EXCEPT !.lastts = NextLastts(d, t, inc),
                 !.total = IF ok THEN @ + amount ELSE @,
                 !.bill_adjustments = IF ok THEN 0 ELSE @]

\* Billed with the record left as it was found when the debit fails.
Billed_rollback(d, t, rate, inc, ok) ==
    IF t - d.lastts >= 0 /\ ok
    THEN LET amount == BillAmount(rate, Units(t - d.lastts, inc), d.bill_adjustments)
         IN [d EXCEPT !.lastts = NextLastts(d, t, inc),
                      !.total = @ + amount,
                      !.bill_adjustments = 0]
    ELSE d

\* Lines 430-463 on record d with ts = t: the record left behind.
Billed(d, t, rate, inc, ok) ==
    IF t - d.lastts >= 0
    THEN LET amount == BillAmount(rate, Units(t - d.lastts, inc), d.bill_adjustments)
         IN [d EXCEPT !.lastts = NextLastts(d, t, inc),
                      !.total = IF ok THEN @ + amount ELSE @,
                      !.bill_adjustments = IF ok THEN 0 ELSE @]
    ELSE d

\* BillCalls without the test of line 430.
BillCalls_always(d, t, rate, inc, ok) ==
    {<<call>> : call \in
        Decrby(0, BillAmount(rate, Units(t - d.lastts, inc), d.bill_adjustments),
               ExactCharge(Units(t - d.lastts, inc), d.bill_adjustments), ok)}

\* Lines 430-463: the debit issued, if any (the sequences of calls possible).
BillCalls(d, t, rate, inc, ok) ==
    IF t - d.lastts >= 0
    THEN {<<call>> : call \in
            Decrby(0, BillAmount(rate, Units(t - d.lastts, inc), d.bill_adjustments),
                   ExactCharge(Units(t - d.lastts, inc), d.bill_adjustments), ok)}
    ELSE {<<>>}

\* Decremented with the counter lowered also when the store refused.
Decremented_always(calls) == IF calls # <<>> THEN store - calls[1].dec ELSE store

\* credis_decrby on success.
Decremented(calls) == IF calls # <<>> /\ calls[1].ok THEN store - calls[1].dec ELSE store

\* Line 365: there is billing information on this session.
HasBilling == BillingVars \subseteq chanvars

\* Lines 335 and 356-358: the local nobal_amt of do_billing, globals.nobal_amt
\* unless the channel variable "nobal_amt" overrides it.
NobalInEffect == IF "nobal_amt" \in chanvars THEN SessionNobal ELSE nobal_amt

\* The slots of rednibble_state_handler that run process_hangup (lines 851,
\* 853, 854 and 856; the media slots through process_and_sched).
Slots == {"on_routing", "on_hangup", "on_exchange_media", "on_consume_media"}

\* The history h when do_billing is entered from `slot` ("none": the other
\* callers of do_billing).  process_hangup and do_billing read no channel state
\* on entry: which slot runs is the host's choice.
Entered(slot, h) ==
    IF slot = "on_hangup" THEN [h EXCEPT !.hangupStarted = TRUE] ELSE h

\* The history h when a do_billing returns, called by process_hangup or not
\* (`handler`): the do_billing of on_hangup has returned (on_hangup is the last
\* slot the host runs on a session).
Returned(handler, h) ==
    IF handler /\ h.hangupStarted THEN [h EXCEPT !.hangupBilled = TRUE] ELSE h

\* Where a thread goes on when its do_billing returns: back into
\* process_hangup (line 835) when that called it.
Return(t) == IF inHandler[t] THEN "ph_balance" ELSE "idle"

\* Lines 318-380 of a do_billing called by process_hangup from a slot of the
\* state handler table, or (`slot` "none") by the application, the API or the
\* heartbeat event: sample ts, return without billing information, read the
\* answer time.
DoBillingFrom(t, slot) ==
    /\ pc[t] = "idle"
    /\ inHandler' = [inHandler EXCEPT ![t] = slot # "none"]
    /\ IF ~HasBilling
       THEN /\ pc' = [pc EXCEPT ![t] = IF slot # "none" THEN "ph_balance" ELSE "idle"]
            /\ hist' = Returned(slot # "none", Entered(slot, hist))
            /\ UNCHANGED ts
       ELSE /\ pc' = [pc EXCEPT ![t] = IF answered < 1 THEN "db_pre" ELSE "db_lock"]
            /\ ts' = [ts EXCEPT ![t] = now]
            /\ hist' = Entered(slot, hist)
    /\ out' = <<>>
    /\ UNCHANGED <<now, billrate, billincrement, chanvars, answered, chanState, rednibble_data, mutex,
                   store, entry>>

\* do_billing called by the application (flush), the API or event_handler
\* (line 541).
DoBillingStart(t) == DoBillingFrom(t, "none")

\* process_hangup, lines 822-833, run by the host from `slot`: it calls
\* do_billing whatever the channel state is.  The host runs on_hangup once the
\* channel is in CS_HANGUP, and no slot after it.
ProcessHangup(t, slot) ==
    /\ slot = "on_hangup" => chanState = "CS_HANGUP"
    /\ ~hist.hangupStarted
    /\ DoBillingFrom(t, slot)

\* Lines 384-395, after the session was found not answered at line 380:
\* get_balance reads the store and the balance is tested against the
\* threshold; the call returns at line 394 when the balance is above it, and
\* goes on to the transfer of line 391 otherwise.  No mutex is held, and the
\* answer time is not read again.
DoBillingPreCheck(t, res) ==
    /\ pc[t] = "db_pre"
    /\ out' = <<Get(res)>>
    /\ IF NoBalance(GetBalance(res), NobalInEffect)
       THEN /\ pc' = [pc EXCEPT ![t] = "db_pre_reroute"]
            /\ UNCHANGED <<ts, hist>>
       ELSE /\ pc' = [pc EXCEPT ![t] = Return(t)]
            /\ ts' = [ts EXCEPT ![t] = 0]
            /\ hist' = Returned(inHandler[t], hist)
    /\ UNCHANGED <<now, billrate, billincrement, chanvars, inHandler, answered, chanState,
                   rednibble_data, mutex, store, entry>>

\* Lines 397-400.
DoBillingLock(t) ==
    /\ pc[t] = "db_lock"
    /\ CanLock(t)
    /\ mutex' = Locked(t)
    /\ pc' = [pc EXCEPT ![t] = "db_body"]
    /\ out' = <<>>
    /\ UNCHANGED <<now, billrate, billincrement, chanvars, inHandler, answered, chanState, rednibble_data,
                   store, ts, entry, hist>>

\* Paused with the test of line 406 never true.
Paused_never(d) == FALSE

\* Line 406: the session is in paused mode.
Paused(d) == d.alloc /\ d.pausets > 0

\* The history kept when the debit of `calls` is refused: the window consumed
\* ends at `upto`.
DebitHist(calls, upto) ==
    IF hist.trackLost /\ calls # <<>> /\ ~calls[1].ok
    THEN [hist EXCEPT !.lostUntil = upto]
    ELSE hist

\* Lines 430-441 on the record itself: lastts is advanced in place before the
\* debit is sent.
Advanced(d, t, inc) ==
    IF t - d.lastts >= 0 THEN [d EXCEPT !.lastts = NextLastts(d, t, inc)] ELSE d

\* Lines 402-448: the paused test, lazy creation, the charge and the debit
\* the store performs or refuses (`ok`).  A record created here is a local of
\* the call until line 467 publishes it; on a record that exists lastts is
\* advanced in place (lines 436 and 441) before bill_event is called.  The call
\* keeps the record as it found it, and its debit, in entry[t].
DoBillingBody(t, ok) ==
    /\ pc[t] = "db_body"
    /\ IF Paused(rednibble_data)
       THEN /\ mutex' = Unlocked
            /\ pc' = [pc EXCEPT ![t] = Return(t)]
            /\ ts' = [ts EXCEPT ![t] = 0]
            /\ out' = <<>>
            /\ hist' = Returned(inHandler[t], hist)
            /\ UNCHANGED <<rednibble_data, store, entry>>
       ELSE LET d0 == IF rednibble_data.alloc THEN rednibble_data ELSE NewData(answered)
            IN \E calls \in BillCalls(d0, ts[t], billrate, billincrement, ok) :
               /\ rednibble_data' = IF rednibble_data.alloc
                                     THEN Advanced(rednibble_data, ts[t], billincrement)
                                     ELSE rednibble_data
               /\ store' = Decremented(calls)
               /\ out' = calls
               /\ entry' = [entry EXCEPT ![t] = [neg |-> ts[t] - d0.lastts < 0, data |-> d0,
                                                 calls |-> calls, balance |-> 0]]
               /\ pc' = [pc EXCEPT ![t] = "db_save"]
               /\ UNCHANGED <<mutex, ts, hist>>
    /\ UNCHANGED <<now, billrate, billincrement, chanvars, inHandler, answered, chanState>>

\* Lines 449-467, after bill_event has returned: total and bill_adjustments
\* follow the result of the debit, and switch_channel_set_private publishes
\* the record (a record created by this call is visible from here on).
DoBillingSave(t) ==
    /\ pc[t] = "db_save"
    /\ rednibble_data' = Billed(entry[t].data, ts[t], billrate, billincrement,
                                entry[t].calls # <<>> /\ entry[t].calls[1].ok)
    /\ hist' = DebitHist(entry[t].calls, Min(ts[t], rednibble_data'.lastts))
    /\ pc' = [pc EXCEPT ![t] = "db_check"]
    /\ out' = <<>>
    /\ UNCHANGED <<now, billrate, billincrement, chanvars, inHandler, answered, chanState, mutex,
                   store, ts, entry>>

\* LowbalFires without the test of lowbal_action_executed.
LowbalFires_always(d, balance) == balance <= lowbal_amt

\* Lines 474-483: the record and the host call of the low-balance test.
LowbalFires(d, balance) == d.lowbal_action_executed = 0 /\ balance <= lowbal_amt

\* Lines 479-482: the flag after the low-balance action has run.
LowbalSet(d, execok) == IF execok THEN [d EXCEPT !.lowbal_action_executed = 1] ELSE d

\* Line 486 on the balance the call has read: pause and reroute, or go on to
\* the unlock.
AfterLowbal(balance) == IF NoBalance(balance, NobalInEffect) THEN "db_pause" ELSE "db_unlock"

\* Line 470: the channel state is tested; a call that is done (hung up) skips
\* the balance check.  The mutex held does not protect the channel state.
DoBillingCheck(t) ==
    /\ pc[t] = "db_check"
    /\ pc' = [pc EXCEPT ![t] = IF chanState \in {"CS_REPORTING", "CS_HANGUP"}
                               THEN "db_unlock"
                               ELSE "db_balance"]
    /\ out' = <<>>
    /\ UNCHANGED <<now, billrate, billincrement, chanvars, inHandler, answered, chanState,
                   rednibble_data, mutex, store, ts, entry, hist>>

\* Lines 472-475 and, when the low-balance action is not due, 486: get_balance
\* reads the store (the call keeps the balance in entry[t].balance), and the
\* low-balance test decides whether the action runs.
DoBillingBalance(t, res) ==
    /\ pc[t] = "db_balance"
    /\ out' = <<Get(res)>>
    /\ entry' = [entry EXCEPT ![t].balance = GetBalance(res)]
    /\ pc' = [pc EXCEPT ![t] = IF LowbalFires(rednibble_data, GetBalance(res))
                               THEN "db_lowbal"
                               ELSE AfterLowbal(GetBalance(res))]
    /\ UNCHANGED <<now, billrate, billincrement, chanvars, inHandler, answered, chanState,
                   rednibble_data, mutex, store, ts, hist>>

\* Lines 479-486: exec_app runs the low-balance action, the flag is set when it
\* succeeded, then the no-balance test on the balance read before.
DoBillingLowbal(t, execok) ==
    /\ pc[t] = "db_lowbal"
    /\ out' = <<Exec(execok)>>
    /\ rednibble_data' = LowbalSet(rednibble_data, execok)
    /\ hist' = [hist EXCEPT !.lowbalAttempts = Bump(@),
                            !.lowbalDone = IF execok THEN Bump(@) ELSE @]
    /\ pc' = [pc EXCEPT ![t] = AfterLowbal(entry[t].balance)]
    /\ UNCHANGED <<now, billrate, billincrement, chanvars, inHandler, answered, chanState,
                   mutex, store, ts, entry>>

\* Line 573: the log line of a pause that found a record; ts is the time the
\* call had sampled (kept with it, the line itself carries no time).
PauseLogged(t) == [call |-> "log", text |-> "Paused billing timestamp!", ts |-> t]

\* The history kept when a pause call leaves record d2 from record d1.
PauseHist(d1, d2) ==
    IF d1.pausets = 0 /\ d2.pausets # 0
    THEN [hist EXCEPT !.pausedEver = TRUE, !.credits = 0]
    ELSE hist

\* Line 494: rednibblebill_pause called with the mutex held (it nests): the
\* call samples the clock again, finds the record and logs at line 573.
DoBillingPause(t) ==
    /\ pc[t] = "db_pause"
    /\ rednibble_data' = PauseSet(rednibble_data, now)
    /\ hist' = PauseHist(rednibble_data, rednibble_data')
    /\ pc' = [pc EXCEPT ![t] = "db_reroute"]
    /\ out' = <<PauseLogged(now)>>
    /\ UNCHANGED <<now, billrate, billincrement, chanvars, inHandler, answered, chanState, mutex, store, ts, entry>>

\* transfer_call to the no-balance action: line 495 after the pause of line
\* 494, the mutex held, or line 391 before the answer, without the mutex, the
\* call returning at line 394.
DoBillingReroute(t) ==
    /\ pc[t] \in {"db_reroute", "db_pre_reroute"}
    /\ out' = <<Transfer>>
    /\ IF pc[t] = "db_reroute"
       THEN /\ hist' = [hist EXCEPT !.nobalRerouted = TRUE, !.reroutes = Bump(@)]
            /\ pc' = [pc EXCEPT ![t] = "db_unlock"]
            /\ UNCHANGED ts
       ELSE /\ hist' = Returned(inHandler[t], [hist EXCEPT !.reroutes = Bump(@)])
            /\ pc' = [pc EXCEPT ![t] = Return(t)]
            /\ ts' = [ts EXCEPT ![t] = 0]
    /\ UNCHANGED <<now, billrate, billincrement, chanvars, inHandler, answered, chanState, rednibble_data, mutex,
                   store, entry>>

\* Lines 501-508.
DoBillingUnlock(t) ==
    /\ pc[t] = "db_unlock"
    /\ mutex' = Unlocked
    /\ pc' = [pc EXCEPT ![t] = Return(t)]
    /\ ts' = [ts EXCEPT ![t] = 0]
    /\ entry' = [entry EXCEPT ![t] = NoEntry]
    /\ hist' = Returned(inHandler[t], hist)
    /\ out' = <<>>
    /\ UNCHANGED <<now, billrate, billincrement, chanvars, inHandler, answered, chanState, rednibble_data,
                   store>>

\* ---------------------------------------------------------------- pause

\* Lines 546-554.
PauseStart(t) ==
    /\ pc[t] = "idle"
    /\ rednibble_data.alloc \/ mutex.depth < MaxLeaked
    /\ pc' = [pc EXCEPT ![t] = "p_lock"]
    /\ ts' = [ts EXCEPT ![t] = now]
    /\ out' = <<>>
    /\ UNCHANGED <<now, billrate, billincrement, chanvars, inHandler, answered, chanState, rednibble_data, mutex,
                   store, entry, hist>>

\* Lines 556-559.
PauseLock(t) ==
    /\ pc[t] = "p_lock"
    /\ CanLock(t)
    /\ mutex' = Locked(t)
    /\ pc' = [pc EXCEPT ![t] = "p_body"]
    /\ out' = <<>>
    /\ UNCHANGED <<now, billrate, billincrement, chanvars, inHandler, answered, chanState, rednibble_data,
                   store, ts, entry, hist>>

\* Lines 561-579.  The return at line 566 leaves the mutex locked.
PauseBody(t) ==
    /\ pc[t] = "p_body"
    /\ IF ~rednibble_data.alloc
       THEN /\ out' = <<>>
            /\ UNCHANGED <<rednibble_data, mutex, hist>>
       ELSE /\ rednibble_data' = PauseSet(rednibble_data, ts[t])
            /\ hist' = PauseHist(rednibble_data, rednibble_data')
            /\ mutex' = Unlocked
            /\ out' = <<PauseLogged(ts[t])>>
    /\ pc' = [pc EXCEPT ![t] = "idle"]
    /\ ts' = [ts EXCEPT ![t] = 0]
    /\ UNCHANGED <<now, billrate, billincrement, chanvars, inHandler, answered, chanState, store, entry>>

\* ---------------------------------------------------------------- resume

\* Lines 581-605: sample ts, then test the record without the mutex.
ResumeStart(t) ==
    /\ pc[t] = "idle"
    /\ hist.resumes < MaxResumes
    /\ IF ~rednibble_data.alloc \/ rednibble_data.pausets = 0
       THEN UNCHANGED <<pc, ts, hist>>
       ELSE /\ pc' = [pc EXCEPT ![t] = "r_lock"]
            /\ ts' = [ts EXCEPT ![t] = now]
            /\ hist' = [hist EXCEPT !.resumes = @ + 1]
    /\ out' = <<>>
    /\ UNCHANGED <<now, billrate, billincrement, chanvars, inHandler, answered, chanState, rednibble_data, mutex,
                   store, entry>>

\* ResumeLock without switch_mutex_lock.
ResumeLock_nolock(t) ==
    /\ pc[t] = "r_lock"
    /\ pc' = [pc EXCEPT ![t] = "r_body"]
    /\ out' = <<>>
    /\ UNCHANGED <<now, billrate, billincrement, chanvars, inHandler, answered, chanState, rednibble_data, mutex,
                   store, ts, entry, hist>>

\* Lines 607-610.
ResumeLock(t) ==
    /\ pc[t] = "r_lock"
    /\ CanLock(t)
    /\ mutex' = Locked(t)
    /\ pc' = [pc EXCEPT ![t] = "r_body"]
    /\ out' = <<>>
    /\ UNCHANGED <<now, billrate, billincrement, chanvars, inHandler, answered, chanState, rednibble_data,
                   store, ts, entry, hist>>

\* The history kept when a resume ends a pause that lasted `paused`.
ResumeHist(paused) ==
    [hist EXCEPT !.credits = Bump(@), !.nobalRerouted = FALSE, !.reroutes = 0,
                 !.pausedFor = IF hist.trackActive THEN @ + paused ELSE @]

\* Lines 612-625.  Without rednibble_rate line 615 calls atof(NULL), which is
\* undefined: the process ends there (every thread with it, the mutex held),
\* or the call yields 0 and resume goes on with a credit of 0.
ResumeBody(t) ==
    /\ pc[t] = "r_body"
    /\ \/ /\ "rednibble_rate" \in chanvars
          /\ rednibble_data' = ResumeSet(rednibble_data, billrate, ts[t])
          /\ hist' = ResumeHist(ts[t] - rednibble_data.pausets)
          /\ mutex' = Unlocked
          /\ pc' = [pc EXCEPT ![t] = "idle"]
          /\ ts' = [ts EXCEPT ![t] = 0]
       \/ /\ "rednibble_rate" \notin chanvars
          /\ rednibble_data' = ResumeSet(rednibble_data, 0, ts[t])
          /\ hist' = ResumeHist(ts[t] - rednibble_data.pausets)
          /\ mutex' = Unlocked
          /\ pc' = [pc EXCEPT ![t] = "idle"]
          /\ ts' = [ts EXCEPT ![t] = 0]
       \/ /\ "rednibble_rate" \notin chanvars
          /\ pc' = [u \in Threads |-> "crashed"]
          /\ UNCHANGED <<rednibble_data, hist, mutex, ts>>
    /\ out' = <<>>
    /\ UNCHANGED <<now, billrate, billincrement, chanvars, inHandler, answered, chanState, store, entry>>

\* ---------------------------------------------------------------- reset

\* Lines 627-643: sample ts, then test the record without the mutex.
ResetStart(t) ==
    /\ pc[t] = "idle"
    /\ hist.resets < MaxResets
    /\ IF ~rednibble_data.alloc
       THEN UNCHANGED <<pc, ts, hist>>
       ELSE /\ pc' = [pc EXCEPT ![t] = "rs_lock"]
            /\ ts' = [ts EXCEPT ![t] = now]
            /\ hist' = [hist EXCEPT !.resets = @ + 1]
    /\ out' = <<>>
    /\ UNCHANGED <<now, billrate, billincrement, chanvars, inHandler, answered, chanState, rednibble_data, mutex,
                   store, entry>>

\* Lines 645-648.
ResetLock(t) ==
    /\ pc[t] = "rs_lock"
    /\ CanLock(t)
    /\ mutex' = Locked(t)
    /\ pc' = [pc EXCEPT ![t] = "rs_body"]
    /\ out' = <<>>
    /\ UNCHANGED <<now, billrate, billincrement, chanvars, inHandler, answered, chanState, rednibble_data,
                   store, ts, entry, hist>>

\* Lines 650-659.
ResetBody(t) ==
    /\ pc[t] = "rs_body"
    /\ rednibble_data' = ResetSet(rednibble_data, ts[t])
    /\ mutex' = Unlocked
    /\ pc' = [pc EXCEPT ![t] = "idle"]
    /\ ts' = [ts EXCEPT ![t] = 0]
    /\ out' = <<>>
    /\ UNCHANGED <<now, billrate, billincrement, chanvars, inHandler, answered, chanState, store, entry, hist>>

\* ---------------------------------------------------------------- check, adjust

\* The value rednibblebill_check returns without a record.
CHECK_FAILED == -99999

Checked(v) == [call |-> "check", value |-> v]

\* CheckStart returning the total of the (absent) record instead of -99999.
CheckStart_total(t) ==
    /\ pc[t] = "idle"
    /\ IF ~rednibble_data.alloc
       THEN /\ out' = <<Checked(rednibble_data.total)>>
            /\ UNCHANGED pc
       ELSE /\ pc' = [pc EXCEPT ![t] = "c_lock"]
            /\ out' = <<>>
    /\ UNCHANGED <<now, billrate, billincrement, chanvars, inHandler, answered, chanState, rednibble_data, mutex,
                   store, ts, entry, hist>>

\* Lines 661-677: test the record without the mutex.
CheckStart(t) ==
    /\ pc[t] = "idle"
    /\ IF ~rednibble_data.alloc
       THEN /\ out' = <<Checked(CHECK_FAILED)>>
            /\ UNCHANGED pc
       ELSE /\ pc' = [pc EXCEPT ![t] = "c_lock"]
            /\ out' = <<>>
    /\ UNCHANGED <<now, billrate, billincrement, chanvars, inHandler, answered, chanState, rednibble_data, mutex,
                   store, ts, entry, hist>>

\* Lines 679-682.
CheckLock(t) ==
    /\ pc[t] = "c_lock"
    /\ CanLock(t)
    /\ mutex' = Locked(t)
    /\ pc' = [pc EXCEPT ![t] = "c_body"]
    /\ out' = <<>>
    /\ UNCHANGED <<now, billrate, billincrement, chanvars, inHandler, answered, chanState, rednibble_data,
                   store, ts, entry, hist>>

\* Lines 684-692.
CheckBody(t) ==
    /\ pc[t] = "c_body"
    /\ out' = <<Checked(rednibble_data.total)>>
    /\ mutex' = Unlocked
    /\ pc' = [pc EXCEPT ![t] = "idle"]
    /\ UNCHANGED <<now, billrate, billincrement, chanvars, inHandler, answered, chanState, rednibble_data,
                   store, ts, entry, hist>>

\* The history kept when the store performs (`ok`) the debit of an adjust.
AdjustHist(ok) == IF ok THEN [hist EXCEPT !.adjusts = @ + 1] ELSE hist

\* Adjust keeping the amount for the next charge (in bill_adjustments) instead
\* of sending it to the store.
Adjust_local(t, amount, ok) ==
    /\ pc[t] = "idle"
    /\ ok => hist.adjusts < MaxAdjusts
    /\ rednibble_data' = [rednibble_data EXCEPT
                             !.bill_adjustments = @ + amount.whole * SECS_PER_MIN * MICRO + amount.frac]
    /\ out' = <<>>
    /\ hist' = AdjustHist(ok)
    /\ UNCHANGED <<now, billrate, billincrement, chanvars, inHandler, answered, chanState, mutex,
                   store, pc, ts, entry>>

\* Lines 694-718: bill_event(-amount), unless rednibble_account is absent;
\* `amount` is amount.whole currency units plus amount.frac 1/(60 * 1000000)
\* units, and the double holds it exactly when it is a whole number.  The
\* store performs MaxAdjusts of these debits at most.
Adjust(t, amount, ok) ==
    /\ pc[t] = "idle"
    /\ IF "rednibble_account" \notin chanvars
       THEN /\ out' = <<>>
            /\ UNCHANGED <<store, hist>>
       ELSE /\ ok => hist.adjusts < MaxAdjusts
            /\ \E call \in Decrby(-amount.whole, -amount.frac, amount.frac = 0, ok) :
                  /\ out' = <<call>>
                  /\ store' = Decremented(out')
            /\ hist' = AdjustHist(ok)
    /\ UNCHANGED <<now, billrate, billincrement, chanvars, inHandler, answered, chanState,
                   rednibble_data, mutex, pc, ts, entry>>

\* Lines 447-457 run by do_billing for another session that bills the same
\* account: it holds the mutex from line 399 to line 503, so it runs while no
\* thread of this session holds it, and it debits before it reads the balance
\* (line 472).  The store performs MaxPeerDebits of these debits at most.
PeerBilling(amount, ok) ==
    /\ mutex = NoMutex
    /\ ok => hist.peerDebits < MaxPeerDebits
    /\ \E call \in Decrby(0, amount, FALSE, ok) :
          /\ out' = <<call>>
          /\ store' = Decremented(out')
    /\ hist' = IF ok THEN [hist EXCEPT !.peerDebits = @ + 1] ELSE hist
    /\ UNCHANGED <<now, billrate, billincrement, chanvars, inHandler, answered, chanState,
                   rednibble_data, mutex, pc, ts, entry>>

\* Lines 835-840 of process_hangup, after its do_billing has returned: the
\* balance is read once more for the variable rednibble_current_balance, and
\* the handler returns.
HangupBalance(t, res) ==
    /\ pc[t] = "ph_balance"
    /\ out' = IF "rednibble_account" \in chanvars THEN <<Get(res)>> ELSE <<>>
    /\ pc' = [pc EXCEPT ![t] = "idle"]
    /\ inHandler' = [inHandler EXCEPT ![t] = FALSE]
    /\ UNCHANGED <<now, billrate, billincrement, chanvars, answered, chanState, rednibble_data, mutex,
                   store, ts, entry, hist>>

\* ---------------------------------------------------------------- specification

\* The balance check of a do_billing that found the session not answered,
\* run by a thread of T, the store answering reads from RS.
PreAnswer(T, RS) == \E t \in T, res \in RS : DoBillingPreCheck(t, res)

\* The state handlers on_routing, on_exchange_media, on_consume_media and
\* on_hangup (lines 849-862) run by a thread of T: process_hangup calls
\* do_billing, then reads the balance.
Handlers(T, RS) ==
    \/ \E t \in T, slot \in Slots : ProcessHangup(t, slot)
    \/ \E t \in T, res \in RS : HangupBalance(t, res)

\* The steps of do_billing run by a thread of T, the store answering reads from
\* RS and debits from DS, the host answering the low-balance action from ES.
Billing(T, RS, DS, ES) ==
    \/ \E t \in T : DoBillingStart(t)
    \/ \E t \in T : DoBillingLock(t)
    \/ \E t \in T, ok \in DS : DoBillingBody(t, ok)
    \/ \E t \in T : DoBillingSave(t)
    \/ \E t \in T : DoBillingCheck(t)
    \/ \E t \in T, res \in RS : DoBillingBalance(t, res)
    \/ \E t \in T, execok \in ES : DoBillingLowbal(t, execok)
    \/ \E t \in T : DoBillingPause(t)
    \/ \E t \in T : DoBillingReroute(t)
    \/ \E t \in T : DoBillingUnlock(t)

\* The steps of the pause, resume and reset commands run by a thread of T.
Commands(T) ==
    \/ \E t \in T : PauseStart(t)
    \/ \E t \in T : PauseLock(t)
    \/ \E t \in T : PauseBody(t)
    \/ \E t \in T : ResumeStart(t)
    \/ \E t \in T : ResumeLock(t)
    \/ \E t \in T : ResumeBody(t)
    \/ \E t \in T : ResetStart(t)
    \/ \E t \in T : ResetLock(t)
    \/ \E t \in T : ResetBody(t)

\* The steps of the check and adjust commands run by a thread of T.
Queries(T, DS) ==
    \/ \E t \in T : CheckStart(t)
    \/ \E t \in T : CheckLock(t)
    \/ \E t \in T : CheckBody(t)
    \/ \E t \in T, a \in AdjustAmounts, ok \in DS : Adjust(t, a, ok)

\* The operations called one after the other by the session thread; the
\* store answers reads and the debits of do_billing at will, and performs the
\* debits of adjust.
Next ==
    \/ TickTo(TimeEnd)
    \/ Answer
    \/ PreAnswer({"app"}, StoreResults)
    \/ Billing({"app"}, StoreResults, BOOLEAN, BOOLEAN)
    \/ Commands({"app"})
    \/ Queries({"app"}, {TRUE})

Spec == Init /\ [][Next]_vars

\* The operations called concurrently by the two threads, the store and the
\* host answering every call.
NextConc ==
    \/ TickTo(TimeEndConc)
    \/ Answer
    \/ PreAnswer(Threads, {"ok"})
    \/ Billing(Threads, {"ok"}, {TRUE}, {TRUE})
    \/ Commands(Threads)

SpecConc == Init /\ [][NextConc]_vars

\* The session thread alone with tick, pause, resume and reset, the store
\* refusing debits at will; the windows lost to refused debits are recorded.
InitFail ==
    /\ now = T0
    /\ billrate = 2
    /\ billincrement \in Increments
    /\ chanvars = BillingVars
    /\ answered = 0
    /\ chanState = "CS_EXECUTE"
    /\ rednibble_data = NoData
    /\ mutex = NoMutex
    /\ store = 40000
    /\ pc = [t \in Threads |-> "idle"]
    /\ ts = [t \in Threads |-> 0]
    /\ entry = [t \in Threads |-> NoEntry]
    /\ inHandler = [t \in Threads |-> FALSE]
    /\ out = <<>>
    /\ hist = [NoHist EXCEPT !.trackLost = TRUE]

NextFail ==
    \/ TickTo(TimeEnd)
    \/ Answer
    \/ PreAnswer({"app"}, {"ok"})
    \/ Billing({"app"}, {"ok"}, BOOLEAN, {TRUE})
    \/ Commands({"app"})

SpecFail == InitFail /\ [][NextFail]_vars

\* The session thread alone, on a session that may lack rednibble_rate or
\* rednibble_account from the start or lose them on the way; the store and the
\* host answer every call.
InitAbsent ==
    /\ now = T0
    /\ billrate = 2
    /\ billincrement \in Increments
    /\ chanvars \in SUBSET BillingVars
    /\ answered = 0
    /\ chanState = "CS_EXECUTE"
    /\ rednibble_data = NoData
    /\ mutex = NoMutex
    /\ store = 40000
    /\ pc = [t \in Threads |-> "idle"]
    /\ ts = [t \in Threads |-> 0]
    /\ entry = [t \in Threads |-> NoEntry]
    /\ inHandler = [t \in Threads |-> FALSE]
    /\ out = <<>>
    /\ hist = NoHist

NextAbsent ==
    \/ TickTo(TimeEnd)
    \/ Answer
    \/ \E v \in BillingVars : UnsetVariable(v)
    \/ PreAnswer({"app"}, {"ok"})
    \/ Billing({"app"}, {"ok"}, {TRUE}, {TRUE})
    \/ Commands({"app"})
    \/ Queries({"app"}, {TRUE})

SpecAbsent == InitAbsent /\ [][NextAbsent]_vars

\* ---------------------------------------------------------------- one charge

\* Elapsed times since the answer, microseconds, around the block edges.
Elapsed == {0, 1, 500000, 999999, 1000000, 1000001, 1500000, 1999999, 2000000, 2000001,
            60000000, 60500000, 90000000, 120000000, 120000001}

\* rednibble_increment values tried on one charge (0: unset).
BillIncrements == {0, 1, 2, 60}

\* An answered session on which do_billing has not run yet, at some instant
\* after the answer; or the session billed at 60 per minute, 30 s after it.
InitCharge ==
    /\ \/ /\ now \in {T0 + e : e \in Elapsed}
          /\ billrate \in Rates
          /\ billincrement \in BillIncrements
       \/ /\ now = T0 + 30 * MICRO
          /\ billrate = 60
          /\ billincrement = 0
    /\ chanvars = BillingVars
    /\ answered = T0
    /\ chanState = "CS_EXECUTE"
    /\ rednibble_data = NoData
    /\ mutex = NoMutex
    /\ store \in StoreInit
    /\ pc = [t \in Threads |-> "idle"]
    /\ ts = [t \in Threads |-> 0]
    /\ entry = [t \in Threads |-> NoEntry]
    /\ inHandler = [t \in Threads |-> FALSE]
    /\ out = <<>>
    /\ hist = NoHist

\* do_billing called again and again by the session thread, the clock standing.
NextCharge == Billing({"app"}, StoreResults, BOOLEAN, BOOLEAN)

SpecCharge == InitCharge /\ [][NextCharge]_vars

\* ---------------------------------------------------------------- one debit

\* Amounts given to one "adjust <amount>" (bill_event is called with their
\* opposite): whole currency units around the limits of dec, and fractions
\* around the micro-unit.
EncodeWhole == {-3000, -2148, -2147, -1, 0, 1, 2147, 2148, 3000}

EncodeFrac == {0, 1, 30, 59, 60, 61, 29018820, 29018821, 30981119, 30981120, 59999999}

EncodeAmounts == [whole : EncodeWhole, frac : EncodeFrac]

\* A session whose account is overdrawn by one micro-unit (from there every
\* decrement by an int stays within the integers of the model checker).
InitEncode ==
    /\ now = T0
    /\ billrate \in Rates
    /\ billincrement = 0
    /\ chanvars = BillingVars
    /\ answered = 0
    /\ chanState = "CS_EXECUTE"
    /\ rednibble_data = NoData
    /\ mutex = NoMutex
    /\ store = -1
    /\ pc = [t \in Threads |-> "idle"]
    /\ ts = [t \in Threads |-> 0]
    /\ entry = [t \in Threads |-> NoEntry]
    /\ inHandler = [t \in Threads |-> FALSE]
    /\ out = <<>>
    /\ hist = NoHist

\* One adjust command.
NextEncode == \E a \in EncodeAmounts, ok \in BOOLEAN : out = <<>> /\ Adjust("app", a, ok)

SpecEncode == InitEncode /\ [][NextEncode]_vars

\* ---------------------------------------------------------------- before the answer

\* Initial values of the counter around the two no-balance thresholds.
PreStores == {-5000, 0, 1, SessionNobal, SessionNobal + 1, 40000}

\* A session that is not answered yet, with or without its own "nobal_amt".
InitPre ==
    /\ now = T0
    /\ billrate = 2
    /\ billincrement \in Increments
    /\ chanvars \in {BillingVars, BillingVars \cup {"nobal_amt"}}
    /\ answered = 0
    /\ chanState = "CS_EXECUTE"
    /\ rednibble_data = NoData
    /\ mutex = NoMutex
    /\ store \in PreStores
    /\ pc = [t \in Threads |-> "idle"]
    /\ ts = [t \in Threads |-> 0]
    /\ entry = [t \in Threads |-> NoEntry]
    /\ inHandler = [t \in Threads |-> FALSE]
    /\ out = <<>>
    /\ hist = NoHist

\* do_billing called by the two threads before and after the answer, the
\* store answering reads at will and performing every debit.
NextPre ==
    \/ TickTo(TimeEndConc)
    \/ Answer
    \/ PreAnswer(Threads, StoreResults)
    \/ Billing(Threads, StoreResults, {TRUE}, {TRUE})
    \/ Handlers({"app"}, StoreResults)

SpecPre == InitPre /\ [][NextPre]_vars

\* ---------------------------------------------------------------- creation

\* The two threads racing through do_billing, the store refusing debits at
\* will, while the API thread runs the commands; the session has its billing
\* variables, or lacks rednibble_account.
InitCreate ==
    /\ now = T0
    /\ billrate = 2
    /\ billincrement \in Increments
    /\ chanvars \in {BillingVars, {"rednibble_rate"}}
    /\ answered = 0
    /\ chanState = "CS_EXECUTE"
    /\ rednibble_data = NoData
    /\ mutex = NoMutex
    /\ store = 40000
    /\ pc = [t \in Threads |-> "idle"]
    /\ ts = [t \in Threads |-> 0]
    /\ entry = [t \in Threads |-> NoEntry]
    /\ inHandler = [t \in Threads |-> FALSE]
    /\ out = <<>>
    /\ hist = NoHist

NextCreate ==
    \/ TickTo(TimeEndConc)
    \/ Answer
    \/ PreAnswer(Threads, {"ok"})
    \/ Billing(Threads, {"ok"}, BOOLEAN, {TRUE})
    \/ Commands({"api"})
    \/ Queries({"api"}, {TRUE})

SpecCreate == InitCreate /\ [][NextCreate]_vars

\* ---------------------------------------------------------------- adjust

\* The session thread alone on an account that starts at or below lowbal_amt;
\* adjust is called before the session is billed as well as after, and the
\* store refuses its debits at will.
InitAdjust == InitOf({2}, Increments, {5000})

NextAdjust ==
    \/ TickTo(TimeEnd)
    \/ Answer
    \/ PreAnswer({"app"}, {"ok"})
    \/ Billing({"app"}, {"ok"}, {TRUE}, {TRUE})
    \/ Commands({"app"})
    \/ Queries({"app"}, BOOLEAN)

SpecAdjust == InitAdjust /\ [][NextAdjust]_vars

\* ---------------------------------------------------------------- shared account

\* The charges of the other session: half a second at 60 per minute.
PeerAmounts == {60 * TickStep}

\* The session thread bills, the API thread adjusts and checks, and another
\* session bills the same account; the store refuses debits at will.
NextShared ==
    \/ TickTo(TimeEndConc)
    \/ Answer
    \/ PreAnswer({"app"}, {"ok"})
    \/ Billing({"app"}, {"ok"}, BOOLEAN, {TRUE})
    \/ Queries({"api"}, BOOLEAN)
    \/ \E amount \in PeerAmounts, ok \in BOOLEAN : PeerBilling(amount, ok)

SpecShared == Init /\ [][NextShared]_vars

\* ---------------------------------------------------------------- hangup

\* The runs that record the time spent paused.
InitHangup ==
    /\ now = T0
    /\ billrate = 2
    /\ billincrement \in Increments
    /\ chanvars = BillingVars
    /\ answered = 0
    /\ chanState = "CS_EXECUTE"
    /\ rednibble_data = NoData
    /\ mutex = NoMutex
    /\ store = 40000
    /\ pc = [t \in Threads |-> "idle"]
    /\ ts = [t \in Threads |-> 0]
    /\ entry = [t \in Threads |-> NoEntry]
    /\ inHandler = [t \in Threads |-> FALSE]
    /\ out = <<>>
    /\ hist = [NoHist EXCEPT !.trackActive = TRUE]

\* The session thread bills, pauses, resumes and resets, and its state
\* handlers run process_hangup.  The host hangs the channel up at any moment,
\* also while the thread is inside an operation (which then runs on in state
\* CS_HANGUP: line 470); the thread may run further operations and
\* handlers, in either channel state, until the state machine calls
\* on_hangup, which runs process_hangup once more (do_billing, then the
\* balance read) and is the last the session thread does.  The clock goes on
\* throughout, and the API thread adjusts and checks at any moment.  The
\* store performs every debit.
NextHangup ==
    \/ TickTo(TimeEnd)
    \/ Answer
    \/ Hangup
    \/ (~hist.hangupStarted \/ pc["app"] # "idle") /\ Billing({"app"}, {"ok"}, {TRUE}, {TRUE})
    \/ PreAnswer({"app"}, {"ok"})
    \/ ~hist.hangupStarted /\ Commands({"app"})
    \/ Handlers({"app"}, StoreResults)
    \/ Queries({"api"}, {TRUE})

SpecHangup == InitHangup /\ [][NextHangup]_vars

\* ---------------------------------------------------------------- claims

\* The thread t ran lines 402-448 of do_billing on a session that is not
\* paused: it leaves with the record it found in entry'[t].data and the debit
\* it sent in entry'[t].calls.
ChargeRan(t) == pc[t] = "db_body" /\ pc'[t] = "db_save"

\* The thread t ran lines 449-467: it has completed the body it entered with
\* the record entry[t].data, having sent the debit entry[t].calls.
BodyRan(t) == pc[t] = "db_save" /\ pc'[t] = "db_check"

\* The debit of the body just completed by t was performed by the store.
Debited(t) == entry[t].calls # <<>> /\ entry[t].calls[1].ok

\* The do_billing of t has completed its body, in which it issued a debit.
DebitIssued(t) == pc[t] = "db_check" /\ entry[t].calls # <<>>

\* C6 (as claimed): in increment mode the charged units are inc when the
\* elapsed time is at most inc, and otherwise the smallest multiple of inc that
\* covers it; they are a positive multiple of inc, they cover the elapsed time,
\* and lastts advances by exactly them.
C6_ChargedUnitsCoverElapsed ==
    \A t \in Threads :
        (pc[t] = "db_check" /\ billincrement # 0 /\ ~entry[t].neg) =>
            LET dt == ts[t] - entry[t].data.lastts
                block == billincrement * MICRO
                charged == rednibble_data.lastts - entry[t].data.lastts
            IN /\ charged = (IF dt <= block THEN block ELSE CeilDiv(dt, block) * block)
               /\ charged > 0
               /\ charged % block = 0
               /\ charged >= dt

\* C1: a do_billing whose debit succeeds, at a non-negative rate and with no
\* pause so far (resets allowed), leaves total greater than or equal to what
\* it was.
C1_TotalMonotonicWithoutPause ==
    [][\A t \in Threads :
        (BodyRan(t) /\ Debited(t) /\ billrate >= 0 /\ ~hist.pausedEver)
            => rednibble_data'.total >= rednibble_data.total]_vars

\* C1 witness: a second charge has been debited after a reset, with no pause.
C1_Witness ==
    /\ DebitIssued("app")
    /\ Debited("app")
    /\ entry["app"].calls[1].amount > 0
    /\ ~hist.pausedEver
    /\ hist.resets > 0
    /\ rednibble_data.total > entry["app"].calls[1].amount

\* C2 (as claimed): while the session is not paused no step lowers total.
C2_TotalNeverLoweredWhileActive ==
    [][rednibble_data.pausets = 0 => rednibble_data'.total >= rednibble_data.total]_vars

\* C2 (amended): total is lowered only by a do_billing whose debit succeeds and
\* whose pending bill_adjustments exceed the charge for the units billed, and
\* then by exactly the difference; pause, resume, reset, check and adjust never
\* change total.
C2_TotalLoweredOnlyByExcessCredit ==
    [][rednibble_data'.total < rednibble_data.total =>
        \E t \in Threads :
            /\ BodyRan(t)
            /\ Debited(t)
            /\ entry[t].data.bill_adjustments
                   > billrate * (rednibble_data'.lastts - entry[t].data.lastts)
            /\ rednibble_data.total - rednibble_data'.total
                   = entry[t].data.bill_adjustments
                        - billrate * (rednibble_data'.lastts - entry[t].data.lastts)]_vars

\* C2 witness: a charge has had a pending adjustment taken off it and total
\* still went up.
C2_Witness ==
    /\ DebitIssued("app")
    /\ Debited("app")
    /\ entry["app"].data.bill_adjustments > 0
    /\ entry["app"].calls[1].amount > 0
    /\ rednibble_data.total > entry["app"].data.total

\* C3 (as claimed): no step moves lastts backward.
C3_LasttsNeverBackward ==
    [][rednibble_data'.lastts >= rednibble_data.lastts]_vars

\* C3 (amended): no step of do_billing, pause or resume moves lastts backward,
\* whatever the interleaving; only reset does, which sets lastts to the time its
\* caller sampled.
C3_LasttsBackwardOnlyByReset ==
    [][rednibble_data'.lastts < rednibble_data.lastts =>
        \E t \in Threads :
            /\ pc[t] = "rs_body"
            /\ pc'[t] = "idle"
            /\ rednibble_data'.lastts = ts[t]]_vars

\* C3 witness: in continuous mode a do_billing that sampled its time before a
\* concurrent one billed has run its body and left lastts ahead of its sample.
C3_Witness ==
    \E t \in Threads :
        /\ pc[t] = "db_check"
        /\ billincrement = 0
        /\ entry[t].neg
        /\ rednibble_data.lastts > ts[t]

\* C4 (as claimed): the credit for one paused interval is added to
\* bill_adjustments at most once, however resume calls interleave.
C4_CreditAddedOnce == hist.credits <= 1

\* C5: every step that changes a field of rednibble_data is taken by a thread
\* that holds the mutex.
C5_WritesUnderMutex ==
    [][rednibble_data' # rednibble_data =>
        \E t \in Threads : Holds(t) /\ pc'[t] # pc[t]]_vars

\* C5 witness: resume has written the record while the other thread waits for
\* the mutex.
C5_Witness ==
    \E t, u \in Threads :
        /\ t # u
        /\ pc[u] \in {"db_lock", "p_lock", "r_lock", "rs_lock"}
        /\ pc[t] = "idle"
        /\ hist.credits = 1
        /\ rednibble_data.bill_adjustments > 0
        /\ mutex = NoMutex

\* C7: in continuous mode a do_billing on a session that is not paused, with
\* elapsed time ts - lastts >= 0, debits rate * (ts - lastts) - bill_adjustments
\* (in 1/(60 * 1000000) units: (rate / 60) * seconds - adjustment) and sets
\* lastts to ts.
C7_ContinuousCharge ==
    [][\A t \in Threads :
        /\ (ChargeRan(t) /\ billincrement = 0 /\ ts[t] - entry'[t].data.lastts >= 0) =>
              /\ Len(out') = 1
              /\ out'[1].call = "decrby"
              /\ out'[1].amount = billrate * (ts[t] - entry'[t].data.lastts)
                                     - entry'[t].data.bill_adjustments
              /\ entry'[t].calls = out'
        /\ (BodyRan(t) /\ billincrement = 0 /\ ts[t] - entry[t].data.lastts >= 0) =>
              /\ Len(entry[t].calls) = 1
              /\ rednibble_data'.lastts = ts[t]]_vars

\* C7 witness: a continuous-mode charge over a positive elapsed time with a
\* pending adjustment has been debited.
C7_Witness ==
    /\ DebitIssued("app")
    /\ billincrement = 0
    /\ entry["app"].data.bill_adjustments > 0
    /\ ts["app"] > entry["app"].data.lastts
    /\ rednibble_data.lastts = ts["app"]

\* C8 (as claimed): a do_billing that finds ts < lastts leaves the whole record
\* as it found it.
C8_NegativeElapsedLeavesRecord ==
    \A t \in Threads :
        (pc[t] = "db_unlock" /\ entry[t].neg) => rednibble_data = entry[t].data

\* C8 (amended): a do_billing that finds ts < lastts issues no debit and leaves
\* lastts, total and bill_adjustments as it found them; the balance check that
\* follows still sets lowbal_action_executed (from 0 to 1) and pausets (from 0,
\* on the way to the reroute).
C8_NegativeElapsedNoCharge ==
    \A t \in Threads :
        (/\ pc[t] \in {"db_save", "db_check", "db_balance", "db_lowbal", "db_pause",
                       "db_reroute", "db_unlock"}
         /\ entry[t].neg) =>
            /\ entry[t].calls = <<>>
            /\ \A i \in 1..Len(out) : out[i].call # "decrby"
            /\ rednibble_data.lastts = entry[t].data.lastts
            /\ rednibble_data.total = entry[t].data.total
            /\ rednibble_data.bill_adjustments = entry[t].data.bill_adjustments
            /\ rednibble_data.lowbal_action_executed # entry[t].data.lowbal_action_executed
                   => /\ entry[t].data.lowbal_action_executed = 0
                      /\ pc[t] \in {"db_pause", "db_reroute", "db_unlock"}
            /\ rednibble_data.pausets # entry[t].data.pausets
                   => /\ entry[t].data.pausets = 0
                      /\ pc[t] \in {"db_reroute", "db_unlock"}

\* C8 witness: a do_billing that found ts < lastts is about to return, having
\* set lowbal_action_executed and pausets.
C8_Witness ==
    /\ pc["app"] = "db_unlock"
    /\ entry["app"].neg
    /\ rednibble_data.pausets # entry["app"].data.pausets
    /\ rednibble_data.lowbal_action_executed # entry["app"].data.lowbal_action_executed

\* C9 (as claimed): the low-balance action is run once at most, also when an
\* attempt reports failure.
C9_LowbalAttemptedOnce == hist.lowbalAttempts <= 1

\* C9 (amended): the low-balance action runs successfully once at most, and
\* lowbal_action_executed is set exactly when it has; an attempt that reports
\* failure leaves the flag unset, so the action is attempted again.
C9_LowbalSucceedsOnce ==
    /\ hist.lowbalDone <= 1
    /\ hist.lowbalDone <= hist.lowbalAttempts
    /\ (rednibble_data.lowbal_action_executed = 1) <=> (hist.lowbalDone = 1)

\* C9 witness: the action failed once, then succeeded.
C9_Witness ==
    /\ hist.lowbalAttempts = 2
    /\ hist.lowbalDone = 1
    /\ rednibble_data.lowbal_action_executed = 1

\* C10: when do_billing reroutes after its balance check the session is already
\* paused, and until a resume every do_billing that enters its body finds the
\* session paused and returns without a debit.
C10_PausedBeforeReroute ==
    /\ [](\A t \in Threads : pc[t] = "db_reroute" => rednibble_data.pausets > 0)
    /\ [](hist.nobalRerouted => rednibble_data.pausets > 0)
    /\ [][\A t \in Threads :
            (hist.nobalRerouted /\ pc[t] = "db_body" /\ pc'[t] # "db_body") =>
                /\ pc'[t] \in {"idle", "ph_balance"}
                /\ out' = <<>>
                /\ store' = store
                /\ rednibble_data' = rednibble_data]_vars

\* C10 witness: after the reroute the other thread has entered do_billing's
\* body.
C10_Witness ==
    \E t \in Threads :
        /\ hist.nobalRerouted
        /\ pc[t] = "db_body"

\* C11: a pause that finds the session already paused (pausets # 0), called as
\* a command or from do_billing, leaves pausets at the time the first pause
\* set and changes no other field of the record, nor the store.
C11_PauseIdempotent ==
    [][\A t \in Threads :
        (/\ rednibble_data.alloc
         /\ rednibble_data.pausets # 0
         /\ \/ pc[t] = "p_body" /\ pc'[t] = "idle"
            \/ pc[t] = "db_pause" /\ pc'[t] = "db_reroute")
            => /\ rednibble_data' = rednibble_data
               /\ store' = store]_vars

\* C11 witness: a pause that sampled its time after the session was paused has
\* returned, and pausets is still the earlier time.
C11_Witness ==
    /\ Len(out) = 1
    /\ out[1].call = "log"
    /\ rednibble_data.pausets > 0
    /\ out[1].ts > rednibble_data.pausets

\* C12: resume on a session paused from pausets to the time ts the resume
\* sampled adds rate * (ts - pausets) (in 1/(60 * 1000000) units: (rate / 60) *
\* seconds) to bill_adjustments and sets pausets to 0, changing nothing else;
\* a do_billing whose debit succeeds takes the whole bill_adjustments off its
\* charge and sets it to 0; one that issues no debit, or whose debit fails,
\* keeps it; and no other step changes bill_adjustments.
C12_ResumeCreditConsumedOnce ==
    [][\A t \in Threads :
        /\ (pc[t] = "r_body" /\ pc'[t] = "idle") =>
              /\ rednibble_data'.bill_adjustments = rednibble_data.bill_adjustments
                     + billrate * (ts[t] - rednibble_data.pausets)
              /\ rednibble_data'.pausets = 0
              /\ rednibble_data'.total = rednibble_data.total
              /\ rednibble_data'.lastts = rednibble_data.lastts
        /\ (BodyRan(t) /\ Debited(t)) =>
              /\ entry[t].calls[1].amount =
                     billrate * (rednibble_data'.lastts - entry[t].data.lastts)
                        - entry[t].data.bill_adjustments
              /\ rednibble_data'.total = entry[t].data.total + entry[t].calls[1].amount
              /\ rednibble_data'.bill_adjustments = 0
        /\ (BodyRan(t) /\ ~Debited(t)) =>
              rednibble_data'.bill_adjustments = entry[t].data.bill_adjustments
        /\ rednibble_data'.bill_adjustments # rednibble_data.bill_adjustments =>
              \E u \in Threads : BodyRan(u) \/ (pc[u] = "r_body" /\ pc'[u] = "idle")]_vars

\* C12 witness: after one resume, a do_billing has debited its charge less the
\* credit, and the credit is gone.
C12_Witness ==
    /\ DebitIssued("app")
    /\ Debited("app")
    /\ hist.credits = 1
    /\ entry["app"].data.bill_adjustments > 0
    /\ entry["app"].calls[1].amount = billrate * (rednibble_data.lastts - entry["app"].data.lastts)
                          - entry["app"].data.bill_adjustments
    /\ rednibble_data.bill_adjustments = 0

\* C13: a do_billing whose debit the store refuses leaves lastts advanced by
\* the units it charged, and total and bill_adjustments as it found them; the
\* window it consumed ends at hist.lostUntil, lastts never is before that end
\* afterwards (reset included), and every later charge starts at or after it.
C13_FailedDebitNotRetried ==
    /\ \A t \in Threads :
          (DebitIssued(t) /\ ~Debited(t)) =>
              LET d0 == entry[t].data
                  dt == ts[t] - d0.lastts
              IN /\ rednibble_data.lastts =
                        d0.lastts + (IF billincrement # 0
                                     THEN ChargedUnits(dt, billincrement)
                                     ELSE dt)
                 /\ rednibble_data.lastts >= d0.lastts
                 /\ rednibble_data.total = d0.total
                 /\ rednibble_data.bill_adjustments = d0.bill_adjustments
                 /\ hist.lostUntil = Min(ts[t], rednibble_data.lastts)
    /\ rednibble_data.alloc => rednibble_data.lastts >= hist.lostUntil
    /\ \A t \in Threads :
          (DebitIssued(t) /\ Debited(t)) => entry[t].data.lastts >= hist.lostUntil

\* C13 witness: in continuous mode the debit for the first window was refused,
\* and a later do_billing has debited the time after that window only (total
\* is the charge for it).
C13_Witness ==
    /\ DebitIssued("app")
    /\ Debited("app")
    /\ billincrement = 0
    /\ hist.lostUntil > answered
    /\ entry["app"].calls[1].amount > 0
    /\ rednibble_data.total = billrate * (rednibble_data.lastts - hist.lostUntil)

\* C14 (as claimed): while rednibble_rate or rednibble_account is absent no
\* step of an engine operation issues a debit or changes a field of the record
\* or the store.
C14_NoOpWithoutBillingVars ==
    [][~HasBilling =>
        /\ rednibble_data' = rednibble_data
        /\ store' = store
        /\ \A i \in 1..Len(out') : out'[i].call # "decrby"]_vars

\* C15: on a session without a record every step of pause, resume, reset and
\* check leaves the session without a record and the store as it was and
\* issues no debit; resume, reset and check return from their first test, and
\* check returns -99999.
C15_UninitializedSkipped ==
    [][\A t \in Threads :
        (/\ ~rednibble_data.alloc
         /\ \/ PauseStart(t) \/ PauseLock(t) \/ PauseBody(t)
            \/ ResumeStart(t) \/ ResetStart(t) \/ CheckStart(t))
            => /\ rednibble_data' = NoData
               /\ store' = store
               /\ \A i \in 1..Len(out') : out'[i].call # "decrby"
               /\ pc'[t] \notin {"r_lock", "rs_lock", "c_lock"}
               /\ CheckStart(t) => out' = <<Checked(CHECK_FAILED)>>]_vars

\* C15 witness: on a session without a record pause has run (and returned with
\* the mutex held), and check has just returned -99999.
C15_Witness ==
    /\ ~rednibble_data.alloc
    /\ Holds("app")
    /\ pc["app"] = "idle"
    /\ out = <<Checked(CHECK_FAILED)>>

\* No-balance thresholds around one currency unit, micro-units.
Thresholds == {-MICRO, 0, MICRO - 1, MICRO, MICRO + 1, 2 * MICRO}

\* C16: a balance read that fails, at the connection or at the key, yields
\* 1000000 micro-units (1.0); the no-balance test on it is true exactly for
\* thresholds >= 1.0; and with the configured threshold below 1.0 no
\* do_billing reroutes or pauses after a failed read, before or after answer.
C16_ReadFailureYieldsOne ==
    /\ \A res \in StoreResults \ {"ok"} :
          /\ GetBalance(res) = MICRO
          /\ \A nobal \in Thresholds : NoBalance(GetBalance(res), nobal) <=> nobal >= MICRO
    /\ (Len(out) > 0 /\ out[1].call = "get" /\ out[1].res # "ok" /\ nobal_amt < MICRO) =>
          /\ \A i \in 1..Len(out) : out[i].call # "transfer"
          /\ \A t \in Threads : pc[t] \notin {"db_pause", "db_pre_reroute"}

\* C16 witness: the counter is at or below the no-balance threshold, the read
\* of it failed at the connection, and do_billing goes on to return without
\* pausing or rerouting.
C16_Witness ==
    /\ pc["app"] = "db_unlock"
    /\ out = <<Get("noconn")>>
    /\ store <= nobal_amt
    /\ rednibble_data.pausets = 0

\* C17 (as claimed): for every amount handed to bill_event the int sent to
\* credis_decrby is the ceiling of the double product amount * 1000000 (the
\* ceiling of the amount in micro-units, or one more where the double lies
\* above a whole number of them), hence not less than amount * 1000000.  (The
\* amount is call.whole currency units and call.amount 1/(60 * 1000000) units;
\* both sides are compared as a number of whole millions and a rest, amount *
\* 1000000 itself may exceed the integers of the model checker.)
C17_DecrementIsCeiling ==
    \A i \in 1..Len(out) :
        out[i].call = "decrby" =>
            LET least == CeilDiv(out[i].amount, SECS_PER_MIN)
                w == out[i].whole + (least \div MICRO)
                m == least % MICRO
                dw == out[i].dec \div MICRO
                dm == out[i].dec % MICRO
            IN /\ \E e \in EncodeDouble(out[i].amount, FALSE) :
                     /\ dw = out[i].whole + (e \div MICRO)
                     /\ dm = e % MICRO
               /\ dw > w \/ (dw = w /\ dm >= m)

\* C18 (as claimed): every operation that takes the mutex releases it before
\* it returns, on every exit path: a thread that is between two operations
\* holds no lock, so a do_billing of the other thread waiting at line 397 can
\* take the mutex.
C18_LockReleasedOnReturn ==
    \A t \in Threads : pc[t] = "idle" => ~Holds(t)

\* C19: concurrent do_billing calls never charge an instant twice.  In
\* continuous mode, with no pause and no reset and every debit performed, in
\* every state reached by the two threads (each samples ts before it takes the
\* mutex) in which no call is between its debit and line 467 (it holds the
\* mutex there, lastts advanced and total not yet) total is
\* rate * (lastts - answered): (rate / 60) per second from the answer to lastts.
C19_NoDoubleCharge ==
    (/\ billincrement = 0
     /\ rednibble_data.alloc
     /\ ~hist.pausedEver
     /\ hist.resets = 0
     /\ \A t \in Threads : pc[t] # "db_save")
        => rednibble_data.total = billrate * (rednibble_data.lastts - answered)

\* C19 witness: one thread sampled ts, the other sampled a later ts and billed
\* first; the first then found ts < lastts in its body and charged nothing.
C19_Witness ==
    \E t, u \in Threads :
        /\ t # u
        /\ billincrement = 0
        /\ ~hist.pausedEver
        /\ hist.resets = 0
        /\ pc[t] = "db_check"
        /\ entry[t].neg
        /\ pc[u] = "idle"
        /\ rednibble_data.lastts > ts[t]
        /\ rednibble_data.total > 0

\* C20: while the session is paused (pausets # 0) every step of a do_billing
\* call up to its return issues no call at all (no debit, no balance read, no
\* low-balance action, no reroute) and leaves the record and the store as they
\* are; the call returns from its locked body, and no thread is at the balance
\* check of lines 469-497 on a paused session.  (A call that read the answer
\* time before the answer was made on a session without a record, not on a
\* paused one: its balance check is the matter of C21 and C26.)
C20_PausedBillingFrozen ==
    /\ [][\A t \in Threads :
            (/\ rednibble_data.alloc
             /\ rednibble_data.pausets # 0
             /\ \/ pc[t] = "idle" /\ pc'[t] = "db_lock"
                \/ pc[t] = "db_lock" /\ pc'[t] = "db_body"
                \/ pc[t] = "db_body" /\ pc'[t] # "db_body") =>
                /\ out' = <<>>
                /\ store' = store
                /\ rednibble_data' = rednibble_data
                /\ hist' = hist
                /\ pc[t] = "db_body" => pc'[t] \in {"idle", "ph_balance"}]_vars
    /\ [](\A t \in Threads :
            pc[t] \in {"db_check", "db_balance", "db_lowbal"} => rednibble_data.pausets = 0)

\* C20 witness: a pause command (not the reroute) has paused the session, and
\* a do_billing that sampled a ts later than lastts is in its locked body.
C20_Witness ==
    \E t \in Threads :
        /\ pc[t] = "db_body"
        /\ rednibble_data.pausets # 0
        /\ ~hist.nobalRerouted
        /\ ts[t] > rednibble_data.lastts
        /\ out = <<>>

\* C21: a do_billing that finds the session not answered issues no debit,
\* creates no record and does not take the mutex; it reads the balance once,
\* and transfers the call to the no-balance action exactly when the balance is
\* at or below the threshold in effect (the channel variable "nobal_amt", else
\* globals.nobal_amt).  While the session is not answered there is no record,
\* the mutex is free and every do_billing is in these steps.
C21_PreAnswerOnlyChecksBalance ==
    /\ [](answered < 1 =>
            /\ ~rednibble_data.alloc
            /\ mutex = NoMutex
            /\ \A t \in Threads : pc[t] \in {"idle", "db_pre", "db_pre_reroute", "ph_balance"}
            /\ \A i \in 1..Len(out) : out[i].call # "decrby")
    /\ [][\A t \in Threads :
            (pc[t] # "db_pre" /\ pc'[t] = "db_pre") =>
                /\ answered < 1
                /\ out' = <<>>
                /\ UNCHANGED <<rednibble_data, mutex, store>>]_vars
    /\ [][\A t \in Threads :
            (pc[t] = "db_pre" /\ pc'[t] # "db_pre") =>
                /\ Len(out') = 1
                /\ out'[1].call = "get"
                /\ pc'[t] = "db_pre_reroute" <=> GetBalance(out'[1].res) <= NobalInEffect
                /\ pc'[t] \in {"idle", "ph_balance", "db_pre_reroute"}
                /\ UNCHANGED <<rednibble_data, mutex, store>>]_vars
    /\ [][\A t \in Threads :
            (pc[t] = "db_pre_reroute" /\ pc'[t] # "db_pre_reroute") =>
                /\ out' = <<Transfer>>
                /\ pc'[t] \in {"idle", "ph_balance"}
                /\ UNCHANGED <<rednibble_data, mutex, store>>]_vars

\* C21 witness: before the answer do_billing found the balance equal to the
\* session's own threshold and transferred the call.
C21_Witness ==
    /\ answered < 1
    /\ \A t \in Threads : pc[t] = "idle"
    /\ "nobal_amt" \in chanvars
    /\ store = SessionNobal
    /\ out = <<Transfer>>
    /\ ~rednibble_data.alloc

\* C22: the record is created once, by a do_billing that runs its body on an
\* answered session carrying rednibble_rate and rednibble_account, whether its
\* debit is performed or refused and whichever racing thread comes first; it
\* is seeded with lastts = answered and zero elsewhere, the first charge
\* covering the time from the answer to ts.  No other step creates it, a
\* record is never dropped, and pausets changes only from 0 by pause (the
\* command, or the pause of line 494) and to 0 by resume.
C22_CreatedOnceByDoBilling ==
    /\ [][rednibble_data.alloc => rednibble_data'.alloc]_vars
    /\ [][(~rednibble_data.alloc /\ rednibble_data'.alloc) =>
            \E t \in Threads :
                /\ BodyRan(t)
                /\ HasBilling
                /\ answered >= 1
                /\ entry[t].data = [alloc |-> TRUE, lastts |-> answered, total |-> 0,
                                    pausets |-> 0, bill_adjustments |-> 0,
                                    lowbal_action_executed |-> 0]
                /\ Len(entry[t].calls) = 1
                /\ entry[t].calls[1].amount =
                       BillAmount(billrate, Units(ts[t] - answered, billincrement), 0)
                /\ rednibble_data'.pausets = 0
                /\ rednibble_data'.total = IF Debited(t) THEN entry[t].calls[1].amount ELSE 0]_vars
    /\ [][\A t \in Threads :
            ChargeRan(t) =>
                /\ entry'[t].calls = out'
                /\ entry'[t].data = IF rednibble_data.alloc
                                    THEN rednibble_data
                                    ELSE NewData(answered)]_vars
    /\ [][rednibble_data'.pausets # rednibble_data.pausets =>
            \E t \in Threads :
                \/ /\ pc[t] \in {"p_body", "db_pause"}
                   /\ rednibble_data.alloc
                   /\ rednibble_data.pausets = 0
                \/ /\ pc[t] = "r_body"
                   /\ pc'[t] = "idle"
                   /\ rednibble_data'.pausets = 0]_vars

\* C22 witness: the two threads raced to the first do_billing; the one that
\* came first had its debit refused and created the record, the other has
\* entered its body on that record.
C22_Witness ==
    \E t, u \in Threads :
        /\ t # u
        /\ pc[t] = "db_check"
        /\ entry[t].data = [rednibble_data EXCEPT !.lastts = answered]
        /\ entry[t].calls # <<>>
        /\ ~Debited(t)
        /\ rednibble_data.alloc
        /\ rednibble_data.total = 0
        /\ rednibble_data.lastts > answered
        /\ pc[u] = "db_lock"
        /\ hist.resets = 0

\* C23: adjust on a session that carries rednibble_account issues exactly one
\* debit, of the opposite of its amount, and leaves the record (total, lastts,
\* bill_adjustments, pausets) as it is, whether the store performs the debit
\* or not and whether the session has no record, is active or is paused; the
\* counter goes down by the debit exactly when the store performed it.  (A
\* step that issues a debit and moves no thread is an adjust.)
C23_AdjustLeavesRecord ==
    /\ [][(out' # <<>> /\ out'[1].call = "decrby" /\ pc' = pc) =>
            /\ Len(out') = 1
            /\ \E a \in AdjustAmounts :
                  /\ out'[1].whole = -a.whole
                  /\ out'[1].amount = -a.frac
                  /\ out'[1].dec = -(a.whole * MICRO + a.frac \div SECS_PER_MIN)
            /\ store' = IF out'[1].ok THEN store - out'[1].dec ELSE store
            /\ rednibble_data' = rednibble_data]_vars
    /\ [][(\A t \in Threads : pc[t] = "idle" /\ pc'[t] = "idle") =>
            rednibble_data' = rednibble_data]_vars

\* C23 witness: the store refused the debit of an adjust on a paused session.
C23_Witness ==
    /\ \A t \in Threads : pc[t] = "idle"
    /\ out # <<>>
    /\ out[1].call = "decrby"
    /\ ~out[1].ok
    /\ rednibble_data.alloc
    /\ rednibble_data.pausets # 0
    /\ rednibble_data.total > 0

\* C24: no debit on the shared account is lost.  Every step lowers the counter
\* by exactly the encoded amount (dec) of the debit it issued if the store
\* reported success, and by nothing otherwise, whichever of do_billing, adjust
\* and the other session's do_billing issued it; and total grows by exactly
\* the charge amount of this session's own do_billing debit if it succeeded.
\* Summed over a run: the counter is its initial value minus the decs of the
\* successful debits, and total the sum of the session's successful charges.
C24_NoDebitLost ==
    /\ [][store' = store - (IF out' # <<>> /\ out'[1].call = "decrby" /\ out'[1].ok
                             THEN out'[1].dec
                             ELSE 0)]_vars
    /\ [][\A t \in Threads : ChargeRan(t) => entry'[t].calls = out']_vars
    /\ [][IF \E t \in Threads : BodyRan(t)
          THEN \A t \in Threads :
                  BodyRan(t) =>
                      rednibble_data'.total = entry[t].data.total
                          + (IF Debited(t) THEN entry[t].calls[1].amount ELSE 0)
          ELSE rednibble_data'.total = rednibble_data.total]_vars

\* C24 witness: this session has been charged, an adjust has credited the
\* account, and the other session's debit has just been performed while this
\* session's thread waits for the mutex in do_billing.
C24_Witness ==
    /\ rednibble_data.total > 0
    /\ store > 40000
    /\ out # <<>>
    /\ out[1].call = "decrby"
    /\ out[1].ok
    /\ out[1].amount \in PeerAmounts
    /\ pc["app"] = "db_lock"

\* C25: in increment mode a prepaid block is charged once.  A do_billing whose
\* ts is before lastts (the end of the block already charged) issues no debit
\* and leaves lastts, total and the counter as they are; only one whose ts has
\* reached lastts issues a debit (one), and it moves lastts forward by whole
\* increments, the block that the calls before the new lastts find charged.
C25_PrepaidBlockChargedOnce ==
    [][\A t \in Threads :
        /\ (ChargeRan(t) /\ billincrement # 0) =>
              /\ entry'[t].calls = out'
              /\ IF ts[t] < entry'[t].data.lastts
                 THEN /\ out' = <<>>
                      /\ store' = store
                      /\ rednibble_data' = rednibble_data
                 ELSE /\ Len(out') = 1
                      /\ out'[1].call = "decrby"
        /\ (BodyRan(t) /\ billincrement # 0) =>
              IF ts[t] < entry[t].data.lastts
              THEN /\ entry[t].calls = <<>>
                   /\ rednibble_data'.lastts = entry[t].data.lastts
                   /\ rednibble_data'.total = entry[t].data.total
              ELSE /\ Len(entry[t].calls) = 1
                   /\ rednibble_data'.lastts > entry[t].data.lastts
                   /\ (rednibble_data'.lastts - entry[t].data.lastts)
                          % (billincrement * MICRO) = 0]_vars

\* C25 witness: a block has been charged, and a do_billing called half a
\* second later, inside the block, has issued no debit.
C25_Witness ==
    /\ pc["app"] = "db_check"
    /\ billincrement # 0
    /\ entry["app"].neg
    /\ entry["app"].calls = <<>>
    /\ ts["app"] > answered
    /\ rednibble_data.total > 0
    /\ rednibble_data.lastts - answered = billincrement * MICRO
    /\ hist.resets = 0

\* C26 (as claimed): the no-balance reroute does not loop.  Once do_billing
\* has transferred the session to the no-balance action, from the check before
\* the answer or from the check after the charge, no later do_billing
\* transfers it again unless resume was called in between: the transfers
\* since the last resume are one at most.
C26_RerouteNotRepeated == hist.reroutes <= 1

\* C27 (as claimed): in continuous mode, every debit performed and no reset,
\* once the do_billing of the hangup handler has returned total is rate times
\* the time the session spent answered and not paused: from the answer to the
\* last billing, or to the start of the pause if the session is still paused
\* at hangup, less the pauses that a resume ended.
C27_HangupChargesActiveTime ==
    (/\ hist.hangupBilled
     /\ billincrement = 0
     /\ hist.resets = 0
     /\ rednibble_data.alloc)
        => rednibble_data.total =
               billrate * ((IF rednibble_data.pausets # 0
                            THEN rednibble_data.pausets
                            ELSE rednibble_data.lastts)
                           - answered - hist.pausedFor)

====
